---- MODULE Spec2Model ----
(***************************************************************************)
(* Model of the metrics aggregation and caching core of the admin          *)
(* dashboard: the API routes under src/src/app/api, the shared cache       *)
(* helpers of src/src/lib/api/cache.ts and the query functions of          *)
(* src/src/lib/api/azure.ts and src/src/lib/api/database.ts.               *)
(*                                                                         *)
(* One behaviour follows the requests sent to ONE route (ep): the routes   *)
(* share no state with each other (each has its own cache), so the         *)
(* behaviours of the process are the interleavings of such behaviours.     *)
(* Time is counted in minutes, the unit in which every TTL of the source   *)
(* is a whole number.  A cache entry carries its age (now - start) instead *)
(* of its start instant, the only way the source ever reads the instant;   *)
(* the age stops growing one minute past the TTL, where every read already *)
(* finds the entry expired.                                                *)
(***************************************************************************)
EXTENDS Integers, Sequences, FiniteSets, TLC

(***************************************************************************)
(* Bounds of the model.                                                    *)
(***************************************************************************)
\* requests received in one behaviour
MaxRequests == 2
\* capacity of an LRU cache in the model; the source sets max: 50 (20 for
\* deployments), scaled down so that the keys of the model fill the cache
LruMax == 1
\* rows in the result of one sub-query
MaxRows == 2
\* characters in a range token
MaxTokenLen == 4
\* fragments in a raw service name
MaxFragments == 2
\* pools created in one behaviour
MaxPools == 3
\* words in the query of an execute_sql call
MaxSqlWords == 3
\* parts in a query-string parameter
MaxKeyParts == 2

(***************************************************************************)
(* Program constants: the TTLs, in minutes.                                *)
(***************************************************************************)
\* cache.ts:44   ttl: 5 * 60 * 1000
metricsTTL == 5
\* cache.ts:50   ttl: 2 * 60 * 1000
databaseTTL == 2
\* cache.ts:56   ttl: 5 * 60 * 1000
llmTTL == 5
\* cache.ts:68   ttl: 10 * 60 * 1000
deploymentsTTL == 10
\* errors/route.ts:9   const CACHE_TTL = 2 * 60 * 1000
errorsCACHE_TTL == 2
\* deployments/route.ts:9   const CACHE_TTL = 2 * 60 * 1000
deployCACHE_TTL == 2

(***************************************************************************)
(* Inputs.                                                                 *)
(***************************************************************************)
Envs == {"prod", "test"}
\* one range token: the routes only copy it into the key and the payload
Ranges == {"24h"}

\* The routes.  "deployments" is the SDK-based handler of
\* deployments/route.ts (second GET), "deploymentsCli" the CLI-based one
\* (first GET, with the single-slot deployCache).
Endpoints == {"metrics", "database", "llm", "errors", "deployments", "deploymentsCli"}

\* The sub-queries a route issues.  The metrics route issues nine and the
\* database route seventeen; the model keeps one sub-query of every kind of
\* failure handling that occurs in the route (in the database route:
\* entityCounts rejects on failure like fourteen others, slowQueries carries
\* .catch(() => []) like queryStats).
Queries(e) ==
  CASE e = "metrics"        -> {"requestsFromRequests", "serviceBusQueues"}
    [] e = "database"       -> {"entityCounts", "slowQueries"}
    [] e = "llm"            -> {"azureOpenAIMetrics"}
    [] e = "errors"         -> {"errorsByService", "recentErrors"}
    [] e = "deployments"    -> {"listByResourceGroup"}
    [] e = "deploymentsCli" -> {"backendConfig", "backendSettings"}

\* TRUE when a failure of sub-query q is caught at the query boundary and
\* replaced by an empty result: queryAppInsights, getServiceBusMetrics,
\* getAzureOpenAIMetrics, getAppInsightsData and runAzCommand catch and return
\* [] / {} / null; queryDatabase rethrows, and only slowQueries and queryStats
\* carry .catch(() => []); the SDK deployments handler lists inside the
\* handler's own try.
Isolated(e, q) ==
  CASE e = "database"    -> q = "slowQueries"
    [] e = "deployments" -> FALSE
    [] OTHER             -> TRUE

\* Routes that read required configuration (requireEnv / connection string);
\* the CLI-based routes fall back to hard-coded resource names.
RequiresConfig(e) == e \in {"metrics", "database", "llm", "deployments"}

\* Routes whose handler reads the range parameter.
HasRange(e) == e \in {"metrics", "database", "llm", "errors"}

\* The kind of store behind each route's cache.
CacheKind(e) ==
  CASE e = "errors"         -> "map"
    [] e = "deploymentsCli" -> "slot"
    [] OTHER                -> "lru"

TTL(e) ==
  CASE e = "metrics"        -> metricsTTL
    [] e = "database"       -> databaseTTL
    [] e = "llm"            -> llmTTL
    [] e = "deployments"    -> deploymentsTTL
    [] e = "errors"         -> errorsCACHE_TTL
    [] e = "deploymentsCli" -> deployCACHE_TTL

VARIABLES
  ep,          \* the route this behaviour exercises
  configured,  \* TRUE iff the required configuration is present
  cache,       \* the route's cache: a sequence of entries, least recently used first
  req,         \* the requests, by arrival number
  pair,        \* merge step: the primary/fallback pair the rows belong to
  primary,     \* merge step: the rows the primary query returned
  fallback,    \* merge step: the rows the fallback query returned
  merged,      \* merge step: TRUE once the section is assembled
  section,     \* merge step: the section of the payload
  token,       \* range resolution: the range token, a sequence of characters
  now,         \* range resolution: the instant of the call, in minutes
  resolved,    \* range resolution: TRUE once the token is resolved
  timeRange,   \* range resolution: the TimeRange returned
  serviceName, \* naming: the raw service name
  nameStep,    \* naming: how often mapServiceName has been applied (0..2)
  canonical,   \* naming: mapServiceName(serviceName)
  again,       \* naming: mapServiceName(canonical)
  serviceList, \* aggregation: the list of { service, count } given
  reordered,   \* aggregation: the same records in another order
  aggStep,     \* aggregation: the calls made so far (0..3)
  aggregates   \* aggregation: the results, [once, twice, ofReordered]

VARIABLES
  dbHealth,    \* health: the rows of the database health query
  cacheStats,  \* health: the rows of the cache statistics query
  derived,     \* health: TRUE once the score is derived
  healthOut    \* health: the health section, [score, status]

VARIABLES
  pools,       \* pools: the module's pools record, 0 for null or undefined
  livePools,   \* pools: the pools created and not yet ended
  closePromises,\* pools: the ends a closePools call awaits
  closeState,  \* pools: idle, or awaiting inside closePools
  created      \* pools: how many pools were created

VARIABLES
  chatRoute,   \* chat: which chat route runs the tool, cli or sdk
  sqlQuery,    \* chat: the query argument of execute_sql, a sequence of words
  sqlDone,     \* chat: TRUE once executeSql has returned
  reached,     \* chat: the text handed to the database, <<>> while none was
  sqlResult    \* chat: what executeSql returned

VARIABLES
  producer,    \* keys: the env and range parameters of the request that fetches
  consumer,    \* keys: the env and range parameters of the request that follows
  keyCache,    \* keys: the cache between the two requests
  keyStep,     \* keys: 0, 1 once the first has cached, 2 once the second has looked up
  served       \* keys: what the second request found in the cache

VARIABLES
  rawService,  \* display: the raw name the queries of the pages return
  shownOn      \* display: the name each page has shown it under, <<>> before it has

routeVars == <<ep, configured, cache, req>>
mergeVars == <<pair, primary, fallback, merged, section>>
timeVars == <<token, now, resolved, timeRange>>
nameVars == <<serviceName, nameStep, canonical, again>>
\* what the steps of a route leave alone
aggVars == <<serviceList, reordered, aggStep, aggregates>>
healthVars == <<dbHealth, cacheStats, derived, healthOut>>
poolVars == <<pools, livePools, closePromises, closeState, created>>
sqlVars == <<chatRoute, sqlQuery, sqlDone, reached, sqlResult>>
keyVars == <<producer, consumer, keyCache, keyStep, served>>
displayVars == <<rawService, shownOn>>
sideVars == <<mergeVars, timeVars, nameVars, aggVars, healthVars, poolVars, sqlVars, keyVars, displayVars>>
vars == <<routeVars, sideVars>>

(***************************************************************************)
(* Payloads and cache entries.                                             *)
(***************************************************************************)
\* null / undefined
NoPayload == [rid |-> 0, env |-> "", range |-> "", populated |-> {}]

\* The payload a request assembles: rid (the arrival number of the request)
\* stands for the data its own queries returned, env and range are the
\* parameters it fetched with (echoed as environment / timeRange by the
\* routes that echo them), populated the sections whose sub-query succeeded.
Payload(r, env, range, populated) ==
  [rid |-> r, env |-> env, range |-> range, populated |-> populated]

getCacheKey(env, range) == env \o "-" \o range

\* The key each route builds.
CacheKeyOf(e, env, range) ==
  CASE e \in {"metrics", "database"} -> getCacheKey(env, range)
    [] e = "llm"                     -> getCacheKey("llm", range)
    [] e = "deployments"             -> getCacheKey(env, "deployments")
    [] e = "errors"                  -> env \o "-" \o range
    [] e = "deploymentsCli"          -> "deployCache"

IndexOf(c, k) ==
  IF \E i \in 1..Len(c) : c[i].key = k
    THEN CHOOSE i \in 1..Len(c) : c[i].key = k
    ELSE 0

RemoveAt(c, i) == SubSeq(c, 1, i - 1) \o SubSeq(c, i + 1, Len(c))

\* A fresh entry: start = now, that is age 0.
Entry(k, v) == [key |-> k, data |-> v, age |-> 0]

\* Variant: an entry already counts as stale at the age of its ttl.
isStale_AtTtl(e, ttl) == ttl # 0 /\ e.age >= ttl

\* Variant: the cache is built without a ttl.
isStale_NoTtl(e, ttl) == FALSE

\* lru-cache: an entry is stale once its age exceeds its ttl.
isStale(e, ttl) == ttl # 0 /\ e.age > ttl

\* LRUCache.get: undefined for a missing or stale entry.
LruGet(c, k, ttl) ==
  LET i == IndexOf(c, k)
  IN  IF i = 0 \/ isStale(c[i], ttl) THEN NoPayload ELSE c[i].data

\* LRUCache.get also deletes a stale entry and moves a live one to the
\* most-recently-used end.
LruAfterGet(c, k, ttl) ==
  LET i == IndexOf(c, k)
  IN  IF i = 0 THEN c
      ELSE IF isStale(c[i], ttl) THEN RemoveAt(c, i)
      ELSE Append(RemoveAt(c, i), c[i])

\* LRUCache.set: overwrite in place of the old entry, or evict the least
\* recently used entry when full; the entry's age restarts.
LruSet(c, k, v, max) ==
  LET i == IndexOf(c, k)
  IN  IF i # 0 THEN Append(RemoveAt(c, i), Entry(k, v))
      ELSE IF Len(c) >= max THEN Append(Tail(c), Entry(k, v))
      ELSE Append(c, Entry(k, v))

\* The route-local caches: Map.get / the deployCache variable, valid while
\* Date.now() - timestamp < CACHE_TTL.
MapGet(c, k, ttl) ==
  LET i == IndexOf(c, k)
  IN  IF i # 0 /\ c[i].age < ttl THEN c[i].data ELSE NoPayload

\* Map.set keeps the position of an existing key.
MapSet(c, k, v) ==
  LET i == IndexOf(c, k)
  IN  IF i # 0 THEN [c EXCEPT ![i] = Entry(k, v)] ELSE Append(c, Entry(k, v))

\* deployCache = { data, timestamp }
SlotSet(k, v) == <<Entry(k, v)>>

\* checkCache(cache, key, forceRefresh), and the same test written inline in
\* the CLI-based routes.
checkCache(e, c, k, forceRefresh) ==
  IF forceRefresh THEN NoPayload
  ELSE IF CacheKind(e) = "lru" THEN LruGet(c, k, TTL(e))
  ELSE MapGet(c, k, TTL(e))

\* Variant: the lookup is made before the refresh flag is tested.
checkCacheEffect_LookupFirst(e, c, k, forceRefresh) ==
  IF CacheKind(e) = "lru" THEN LruAfterGet(c, k, TTL(e)) ELSE c

\* The cache after checkCache.
checkCacheEffect(e, c, k, forceRefresh) ==
  IF forceRefresh THEN c
  ELSE IF CacheKind(e) = "lru" THEN LruAfterGet(c, k, TTL(e))
  ELSE c

\* Variant: a write to a key already held changes the data and keeps the
\* entry's age.
setCache_KeepAge(e, c, k, v) ==
  LET i == IndexOf(c, k)
  IN  IF i # 0 THEN [c EXCEPT ![i].data = v]
      ELSE IF CacheKind(e) = "lru" THEN LruSet(c, k, v, LruMax)
      ELSE Append(c, Entry(k, v))

\* Variant: a write to a key already held is dropped (first writer wins).
setCache_FirstWins(e, c, k, v) ==
  IF IndexOf(c, k) # 0 THEN c
  ELSE IF CacheKind(e) = "lru" THEN LruSet(c, k, v, LruMax)
  ELSE Append(c, Entry(k, v))

\* Variant: only a payload with every section populated is written.
setCache_CompleteOnly(e, c, k, v) ==
  IF v.populated # Queries(e) THEN c
  ELSE IF CacheKind(e) = "lru" THEN LruSet(c, k, v, LruMax)
  ELSE IF CacheKind(e) = "map" THEN MapSet(c, k, v)
  ELSE SlotSet(k, v)

\* setCache(cache, key, data), errorsCache.set and the assignment to
\* deployCache.
setCache(e, c, k, v) ==
  CASE CacheKind(e) = "lru"  -> LruSet(c, k, v, LruMax)
    [] CacheKind(e) = "map"  -> MapSet(c, k, v)
    [] CacheKind(e) = "slot" -> SlotSet(k, v)

(***************************************************************************)
(* Requests.                                                               *)
(***************************************************************************)
Requests == 1..MaxRequests

\* Three fields only observe the run: hadEntry tells whether the cache held an
\* entry (live or expired) under the request's key when the request arrived,
\* replaced is the rid of the payload the request's cache write overwrote
\* (0 when it wrote a new key or nothing), servedAge the age of the entry a
\* request was answered from (0 when it was not answered from the cache).
IdleRequest ==
  [pc |-> "idle", env |-> "", range |-> "", refresh |-> FALSE,
   pending |-> {}, failed |-> {}, status |-> "none", fromCache |-> FALSE,
   payload |-> NoPayload, hadEntry |-> FALSE, replaced |-> 0,
   servedAge |-> 0]

RangesOf(e) == IF HasRange(e) THEN Ranges ELSE {"24h"}

\* No merge step and no range resolution take part in the behaviour.
NoMerge ==
  /\ pair = "none" /\ primary = <<>> /\ fallback = <<>>
  /\ merged = FALSE /\ section = <<>>
NoResolution == token = <<>> /\ now = 0 /\ resolved = FALSE /\ timeRange = <<>>
NoNaming == serviceName = <<>> /\ nameStep = 0 /\ canonical = <<>> /\ again = <<>>
NoAggregation ==
  /\ serviceList = <<>> /\ reordered = <<>> /\ aggStep = 0
  /\ aggregates = [once |-> <<>>, twice |-> <<>>, ofReordered |-> <<>>]
NoHealth == dbHealth = <<>> /\ cacheStats = <<>> /\ derived = FALSE /\ healthOut = <<>>
NoPools == pools = <<>> /\ livePools = {} /\ closePromises = {} /\ closeState = "idle" /\ created = 0
NoSql == chatRoute = "none" /\ sqlQuery = <<>> /\ sqlDone = FALSE /\ reached = <<>> /\ sqlResult = <<>>
NoKeys == producer = <<>> /\ consumer = <<>> /\ keyCache = <<>> /\ keyStep = 0 /\ served = <<>>
NoDisplay == rawService = <<>> /\ shownOn = <<>>
\* A route at rest: the state the pure computations are studied in.
RouteAtRest ==
  /\ ep = "metrics" /\ configured = TRUE
  /\ cache = <<>>
  /\ req = [r \in Requests |-> IdleRequest]

Init ==
  /\ ep \in Endpoints
  /\ configured \in (IF RequiresConfig(ep) THEN BOOLEAN ELSE {TRUE})
  /\ cache = <<>>
  /\ req = [r \in Requests |-> IdleRequest]
  /\ NoHealth
  /\ NoPools
  /\ NoSql
  /\ NoKeys
  /\ NoDisplay
  /\ NoMerge
  /\ NoResolution
  /\ NoNaming
  /\ NoAggregation

\* GET, up to the fan-out: read the parameters, check the cache, answer from
\* it on a hit, otherwise issue every sub-query.  The SDK deployments
\* handler reads its configuration first and answers 500 when it is missing.
\* Requests are numbered in their order of arrival.
Receive(r, env, range, refresh) ==
  /\ req[r].pc = "idle"
  /\ \A j \in Requests : j < r => req[j].pc # "idle"
  /\ LET k      == CacheKeyOf(ep, env, range)
         cached == checkCache(ep, cache, k, refresh)
         base   == [IdleRequest EXCEPT !.env = env, !.range = range,
                                       !.refresh = refresh,
                                       !.hadEntry = (IndexOf(cache, k) # 0)]
     IN  /\ cache' = checkCacheEffect(ep, cache, k, refresh)
         /\ req' = [req EXCEPT ![r] =
              IF cached # NoPayload
                THEN [base EXCEPT !.pc = "done", !.status = "ok",
                                  !.fromCache = TRUE, !.payload = cached,
                                  !.servedAge = cache[IndexOf(cache, k)].age]
              ELSE IF ep = "deployments" /\ ~configured
                THEN [base EXCEPT !.pc = "done", !.status = "error"]
              ELSE [base EXCEPT !.pc = "fetching", !.pending = Queries(ep)]]
  /\ UNCHANGED <<ep, configured, sideVars>>

\* Variant: the request resumes at the first sub-query that fulfils.
Outcome_FirstSettled(r, q, ok) ==
  IF ~ok /\ ~Isolated(ep, q) THEN "error" ELSE "ok"

\* The outcome of Promise.all once sub-query q of request r has settled:
\* "error" as soon as a sub-query rejects, "ok" when the last one fulfils,
\* "wait" otherwise.
Outcome(r, q, ok) ==
  IF ~ok /\ ~Isolated(ep, q) THEN "error"
  ELSE IF req[r].pending = {q} THEN "ok"
  ELSE "wait"

\* One sub-query of request r settles.  Without the required configuration
\* it can only fail (requireEnv / getPool throw).  While the request is
\* suspended on Promise.all this may resume it: the catch block answers 500
\* without touching the cache; the normal path assembles the payload, caches
\* it and answers.  A sub-query that settles after the answer changes nothing.
Settle(r, q, ok) ==
  /\ req[r].pc \in {"fetching", "done"}
  /\ q \in req[r].pending
  /\ (RequiresConfig(ep) /\ ~configured) => ~ok
  /\ LET failed  == IF ok THEN req[r].failed ELSE req[r].failed \cup {q}
         settled == [req[r] EXCEPT !.pending = @ \ {q}, !.failed = failed]
         data    == Payload(r, req[r].env, req[r].range, Queries(ep) \ failed)
         k       == CacheKeyOf(ep, req[r].env, req[r].range)
         old     == IndexOf(cache, k)
     IN  IF req[r].pc = "done" \/ Outcome(r, q, ok) = "wait"
           THEN /\ req' = [req EXCEPT ![r] = settled]
                /\ cache' = cache
         ELSE IF Outcome(r, q, ok) = "error"
           THEN /\ req' = [req EXCEPT ![r] =
                             [settled EXCEPT !.pc = "done", !.status = "error"]]
                /\ cache' = cache
         ELSE /\ req' = [req EXCEPT ![r] =
                           [settled EXCEPT !.pc = "done", !.status = "ok", !.payload = data,
                              !.replaced = IF old = 0 THEN 0 ELSE cache[old].data.rid]]
              /\ cache' = setCache(ep, cache, k, data)
  /\ UNCHANGED <<ep, configured, sideVars>>

\* A minute passes: every entry grows a minute older.
Tick ==
  /\ \E i \in 1..Len(cache) : cache[i].age <= TTL(ep)
  /\ cache' = [i \in 1..Len(cache) |->
                 [cache[i] EXCEPT !.age = IF @ <= TTL(ep) THEN @ + 1 ELSE @]]
  /\ UNCHANGED <<ep, configured, req, sideVars>>

Next ==
  \/ \E r \in Requests, env \in Envs, range \in RangesOf(ep), refresh \in BOOLEAN :
       Receive(r, env, range, refresh)
  \/ \E r \in Requests, q \in Queries(ep), ok \in BOOLEAN : Settle(r, q, ok)
  \/ Tick

Spec == Init /\ [][Next]_vars

(***************************************************************************)
(* Service names.  A name is a sequence of fragments, each a piece of text *)
(* that no pattern of mapServiceName straddles, so that String.includes is *)
(* containment of one fragment sequence in another.  <<>> is the empty     *)
(* string (and null, equally falsy).  Two values stand for what is not a   *)
(* string: ObjectConstructor, the function every object literal inherits   *)
(* under the key "constructor", and TypeError, the exception of a method   *)
(* call on it.                                                             *)
(***************************************************************************)
SymmetryBackend == <<"Symmetry ", "Backend">>
AIFeaturesAPI == <<"AI Features API">>
ConvoProcessor == <<"Convo ", "Processor">>
Unknown == <<"Unknown">>
ObjectConstructor == <<"function Object() { [native code] }">>
TypeError == <<"TypeError">>

\* String.prototype.toLowerCase, fragment by fragment
toLowerFragment(f) ==
  CASE f = "Symmetry " -> "symmetry "
    [] f = "Backend" -> "backend"
    [] f = "AI Features API" -> "ai features api"
    [] f = "Convo " -> "convo "
    [] f = "Processor" -> "processor"
    [] f = "Unknown" -> "unknown"
    [] f = "UVICORN" -> "uvicorn"
    [] f = "Web" -> "web"
    [] OTHER -> f

toLowerCase(name) == [i \in 1..Len(name) |-> toLowerFragment(name[i])]

\* a fragment without the space it ends in
trimEndFragment(f) ==
  CASE f = "symmetry " -> "symmetry"
    [] f = "Symmetry " -> "Symmetry"
    [] f = "convo " -> "convo"
    [] f = "Convo " -> "Convo"
    [] OTHER -> f

\* String.prototype.trim: white space at either end goes
RECURSIVE trim(_)
trim(name) ==
  IF name = <<>> THEN name
  ELSE IF Head(name) = " " THEN trim(Tail(name))
  ELSE IF name[Len(name)] = " " THEN trim(SubSeq(name, 1, Len(name) - 1))
  ELSE [name EXCEPT ![Len(name)] = trimEndFragment(@)]

\* String.prototype.includes
includes(name, pattern) ==
  \E i \in 0..(Len(name) - Len(pattern)) :
    SubSeq(name, i + 1, i + Len(pattern)) = pattern

BackendKeys ==
  { <<"uvicorn">>, <<"symmetry-", "backend">>,
    <<"asp-sym-", "backend", "-prod">>, <<"asp-sym-", "backend", "-test">>,
    <<"app-sym-", "backend", "-prod">>, <<"app-sym-", "backend", "-test">>,
    <<"app-sym-", "backend">> }
AIFeaturesKeys ==
  { <<"ai-features", "-api">>,
    <<"asp-", "ai-features", "-prod">>, <<"asp-", "ai-features", "-test">>,
    <<"app-sym-", "ai-features", "-prod">>,
    <<"app-sym-", "ai-features", "-test">>,
    <<"app-sym-", "ai-features">>,
    <<"ai_features", "_api">>, <<"aifeatures">> }
ProcessorKeys ==
  { <<"ai-convo-", "processor">>,
    <<"func-sym", "-", "processor", "-prod">>,
    <<"func-sym", "-", "processor", "-test">>,
    <<"func-sym", "-", "processor">>,
    <<"ai_convo_", "processor">>,
    <<"__main__", ".py">>, <<"__main__">>,
    <<"function_app">>, <<"function_app", ".py">> }

SERVICE_NAME_MAPPINGS ==
  [k \in BackendKeys \cup AIFeaturesKeys \cup ProcessorKeys |->
     IF k \in BackendKeys THEN SymmetryBackend
     ELSE IF k \in AIFeaturesKeys THEN AIFeaturesAPI
     ELSE ConvoProcessor]

\* What SERVICE_NAME_MAPPINGS inherits from Object.prototype under a
\* lower-case key (constructor; __proto__ behaves alike).
ObjectPrototype == [k \in {<<"constructor">>} |-> ObjectConstructor]

\* SERVICE_NAME_MAPPINGS[lower]: own keys first, then inherited ones; <<>>
\* for undefined
Lookup(lower) ==
  IF lower \in DOMAIN SERVICE_NAME_MAPPINGS THEN SERVICE_NAME_MAPPINGS[lower]
  ELSE IF lower \in DOMAIN ObjectPrototype THEN ObjectPrototype[lower]
  ELSE <<>>

\* the partial matches, in the order the code tries them
partialMatches ==
  << [pattern |-> <<"ai-features">>, name |-> AIFeaturesAPI],
     [pattern |-> <<"ai_features">>, name |-> AIFeaturesAPI],
     [pattern |-> <<"aifeatures">>, name |-> AIFeaturesAPI],
     [pattern |-> <<"processor">>, name |-> ConvoProcessor],
     [pattern |-> <<"func-sym">>, name |-> ConvoProcessor],
     [pattern |-> <<"__main__">>, name |-> ConvoProcessor],
     [pattern |-> <<"function_app">>, name |-> ConvoProcessor],
     [pattern |-> <<"backend">>, name |-> SymmetryBackend],
     [pattern |-> <<"uvicorn">>, name |-> SymmetryBackend] >>

\* A call with a value that has no toLowerCase throws; so does a call whose
\* argument threw.
mapServiceName(rawName) ==
  IF rawName = <<>> THEN Unknown
  ELSE IF rawName \in {ObjectConstructor, TypeError} THEN TypeError
  ELSE LET lower == trim(toLowerCase(rawName))
           hits == {i \in 1..Len(partialMatches) :
                      includes(lower, partialMatches[i].pattern)}
       IN  IF Lookup(lower) # <<>>
             THEN Lookup(lower)
           ELSE IF hits # {}
             THEN partialMatches[CHOOSE i \in hits : \A j \in hits : i <= j].name
           ELSE rawName

(***************************************************************************)
(* aggregateServiceMetrics: counts summed per display name in a Map, which *)
(* keeps the order of first insertion, then sorted by count, largest       *)
(* first; Array.prototype.sort is stable.                                  *)
(***************************************************************************)
RECURSIVE aggregated(_, _)
aggregated(services, acc) ==
  IF services = <<>> THEN acc
  ELSE LET s == Head(services)
           at == {i \in 1..Len(acc) : acc[i].service = s.service}
       IN  IF at = {}
             THEN aggregated(Tail(services), Append(acc, s))
           ELSE aggregated(Tail(services),
                  [i \in 1..Len(acc) |->
                     IF i \in at
                       THEN [acc[i] EXCEPT !.count = @ + s.count]
                       ELSE acc[i]])

\* x put into a list sorted by count, largest first, behind its equals
InsertByCount(sorted, x) ==
  LET p == Cardinality({i \in 1..Len(sorted) : sorted[i].count >= x.count})
  IN  SubSeq(sorted, 1, p) \o <<x>> \o SubSeq(sorted, p + 1, Len(sorted))

RECURSIVE sortByCount(_, _)
sortByCount(list, sorted) ==
  IF list = <<>> THEN sorted
  ELSE sortByCount(Tail(list), InsertByCount(sorted, Head(list)))

aggregateServiceMetrics(services) ==
  sortByCount(aggregated(services, <<>>), <<>>)

(***************************************************************************)
(* The sections of the metrics payload that have a fallback query.  A      *)
(* requests row is [name, count]; a performance row is [endpoint, avgMs,   *)
(* p95Ms, count], each field either absent (<<>>, null) or <<value>>, the  *)
(* durations in tenths of a millisecond.                                   *)
(***************************************************************************)
\* x || d for a nullable number
OrZero(x) == IF x = <<>> THEN 0 ELSE x[1]
\* x || '' for a nullable string
OrEmpty(x) == IF x = <<>> THEN "" ELSE x[1]
\* Math.round of a non-negative number given in tenths
round(tenths) == (tenths + 5) \div 10

ServiceMetric(row) == [service |-> mapServiceName(row.name), count |-> row.count]
\* Array.prototype.map over the kept rows
ServiceMetrics(rows) == [i \in 1..Len(rows) |-> ServiceMetric(rows[i])]

requestsData(requestsFromRequests) ==
  LET truthy(row) == row.name # <<>>
  IN  aggregateServiceMetrics(
        ServiceMetrics(SelectSeq(requestsFromRequests, truthy)))

traceServiceData(requestsByService) ==
  LET named(row) == row.name # <<>> /\ row.name # Unknown
  IN  aggregateServiceMetrics(
        ServiceMetrics(SelectSeq(requestsByService, named)))

finalRequestsData_WhenNoCounts(requestsFromRequests, requestsByService) ==
  IF \E i \in 1..Len(requestsData(requestsFromRequests)) :
       requestsData(requestsFromRequests)[i].count > 0
    THEN requestsData(requestsFromRequests)
    ELSE traceServiceData(requestsByService)

finalRequestsData(requestsFromRequests, requestsByService) ==
  IF Len(requestsData(requestsFromRequests)) > 0
    THEN requestsData(requestsFromRequests)
    ELSE traceServiceData(requestsByService)

PerformanceMetric(row) ==
  [endpoint |-> OrEmpty(row.endpoint),
   avgMs |-> round(OrZero(row.avgMs)),
   p95Ms |-> round(OrZero(row.p95Ms)),
   count |-> OrZero(row.count)]

perfFromTraces(performanceData) ==
  [i \in 1..Len(performanceData) |-> PerformanceMetric(performanceData[i])]
perfFromRequests(performanceAllRequests) ==
  [i \in 1..Len(performanceAllRequests) |->
     PerformanceMetric(performanceAllRequests[i])]

perfData(performanceData, performanceAllRequests) ==
  IF Len(perfFromTraces(performanceData)) > 0
    THEN perfFromTraces(performanceData)
    ELSE perfFromRequests(performanceAllRequests)

\* The rows App Insights may return to the model
RowNames == { <<>>, Unknown, <<"uvicorn">>, <<"symmetry-", "backend">> }
RequestsRows == [name : RowNames, count : {0, 3}]
PerformanceRows ==
  { [endpoint |-> <<>>, avgMs |-> <<>>, p95Ms |-> <<>>, count |-> <<>>],
    [endpoint |-> <<"/chat">>, avgMs |-> <<74>>, p95Ms |-> <<75>>, count |-> <<2>>],
    [endpoint |-> <<"/chat">>, avgMs |-> <<0>>, p95Ms |-> <<0>>, count |-> <<0>>],
    [endpoint |-> <<"/health">>, avgMs |-> <<0>>, p95Ms |-> <<4>>, count |-> <<0>>] }
SeqsUpTo(S, n) == UNION {[1..m -> S] : m \in 0..n}
RowsOf(p) ==
  IF p = "requests" THEN SeqsUpTo(RequestsRows, MaxRows)
  ELSE SeqsUpTo(PerformanceRows, MaxRows)

\* The two queries of a pair have answered with these rows.
InitMerge ==
  /\ RouteAtRest
  /\ NoDisplay
  /\ NoKeys
  /\ NoSql
  /\ NoPools
  /\ NoHealth
  /\ NoAggregation
  /\ pair \in {"requests", "performance"}
  /\ primary \in RowsOf(pair)
  /\ fallback \in RowsOf(pair)
  /\ merged = FALSE
  /\ section = <<>>
  /\ NoResolution
  /\ NoNaming

MergeRequests ==
  /\ pair = "requests" /\ ~merged
  /\ section' = finalRequestsData(primary, fallback)
  /\ merged' = TRUE
  /\ UNCHANGED <<routeVars, displayVars, keyVars, sqlVars, poolVars, healthVars, timeVars, nameVars, aggVars, pair, primary, fallback>>

MergePerformance ==
  /\ pair = "performance" /\ ~merged
  /\ section' = perfData(primary, fallback)
  /\ merged' = TRUE
  /\ UNCHANGED <<routeVars, displayVars, keyVars, sqlVars, poolVars, healthVars, timeVars, nameVars, aggVars, pair, primary, fallback>>

NextMerge == MergeRequests \/ MergePerformance

SpecMerge == InitMerge /\ [][NextMerge]_vars

(***************************************************************************)
(* Range resolution (lib/api/time.ts).  A token is a sequence of           *)
(* characters.  Durations and instants are counted in minutes, so `hours`  *)
(* holds sixty times the number of the source: value / 60 is then exact    *)
(* for every whole number of minutes, as it is in the source up to the     *)
(* rounding of Math.round(hours * 60).  A number printed into a string is  *)
(* kept as [whole, sixtieths], the number whole + sixtieths/60, and a      *)
(* derived form as the number with its unit.                               *)
(***************************************************************************)
Digits == {"0", "1", "2", "4", "6", "7"}
Units == {"h", "d", "m"}
Chars == Digits \cup Units \cup {"x", "-"}
Tokens == UNION {[1..n -> Chars] : n \in 0..MaxTokenLen}

DigitValue(c) ==
  CASE c = "0" -> 0 [] c = "1" -> 1 [] c = "2" -> 2 [] c = "3" -> 3
    [] c = "4" -> 4 [] c = "5" -> 5 [] c = "6" -> 6 [] c = "7" -> 7
    [] c = "8" -> 8 [] c = "9" -> 9

\* parseInt(digits, 10) of a string of digits
RECURSIVE parseInt(_)
parseInt(digits) ==
  IF digits = <<>> THEN 0
  ELSE 10 * parseInt(SubSeq(digits, 1, Len(digits) - 1))
         + DigitValue(digits[Len(digits)])

\* range.match(/(\d+)([hdm])/), the pattern of getBinSize: the leftmost run
\* of digits that a unit follows, anywhere in the token
searchMatch(t) ==
  LET runs == {p \in (1..Len(t)) \X (1..Len(t)) :
                 /\ p[1] < p[2]
                 /\ \A i \in p[1]..(p[2] - 1) : t[i] \in Digits
                 /\ t[p[2]] \in Units}
  IN  IF runs = {} THEN <<>>
      ELSE LET first == CHOOSE p \in runs : \A q \in runs : p[1] <= q[1]
           IN  <<SubSeq(t, first[1], first[2] - 1), t[first[2]]>>

\* Variant: the pattern is not anchored.
match_Unanchored(t) == searchMatch(t)

\* range.match(/^(\d+)([hdm])$/): <<>> for null, else <<digits, unit>>
match(t) ==
  IF /\ Len(t) >= 2
     /\ t[Len(t)] \in Units
     /\ \A i \in 1..(Len(t) - 1) : t[i] \in Digits
    THEN <<SubSeq(t, 1, Len(t) - 1), t[Len(t)]>>
    ELSE <<>>

\* n hours
Hours(n) == 60 * n

\* Variant: the number is cut to a whole number before it is printed.
Printed_Whole(x) == [whole |-> x \div 60, sixtieths |-> 0]

\* `${x}` for x given in sixtieths
Printed(x) == [whole |-> x \div 60, sixtieths |-> x % 60]
\* `${n}` for a whole number n
PrintedWhole(n) == [whole |-> n, sixtieths |-> 0]

\* Variant: the thresholds are exclusive.
azureInterval_Exclusive(hours) ==
  IF hours < Hours(1) THEN "PT5M"
  ELSE IF hours < Hours(6) THEN "PT15M"
  ELSE IF hours < Hours(24) THEN "PT1H"
  ELSE IF hours < Hours(72) THEN "PT6H"
  ELSE "P1D"

azureInterval(hours) ==
  IF hours <= Hours(1) THEN "PT5M"
  ELSE IF hours <= Hours(6) THEN "PT15M"
  ELSE IF hours <= Hours(24) THEN "PT1H"
  ELSE IF hours <= Hours(72) THEN "PT6H"
  ELSE "P1D"

createTimeRange(hours, endTime) ==
  LET wholeDays == hours >= Hours(24) /\ hours % Hours(24) = 0
      days      == PrintedWhole(hours \div Hours(24))
      \* Math.round(hours * 60)
      minutes   == PrintedWhole(hours)
  IN  [raw |->
         IF wholeDays THEN [n |-> days, unit |-> "d"]
         ELSE IF hours >= Hours(1) THEN [n |-> Printed(hours), unit |-> "h"]
         ELSE [n |-> minutes, unit |-> "m"],
       hours |-> hours,
       postgresInterval |->
         IF wholeDays THEN [n |-> days, unit |-> " days"]
         ELSE IF hours >= Hours(1) THEN [n |-> Printed(hours), unit |-> " hours"]
         ELSE [n |-> minutes, unit |-> " minutes"],
       azureInterval |-> azureInterval(hours),
       isoDuration |->
         IF wholeDays THEN [prefix |-> "P", n |-> days, unit |-> "D"]
         ELSE [prefix |-> "PT", n |-> Printed(hours), unit |-> "H"],
       isoStart |-> endTime - hours,
       isoEnd |-> endTime]

\* Variant: the unit is ignored and the number read as hours.
parseTimeRange_AllHours(t, endTime) ==
  IF match(t) = <<>> THEN createTimeRange(Hours(24), endTime)
  ELSE createTimeRange(Hours(parseInt(match(t)[1])), endTime)

parseTimeRange(t, endTime) ==
  IF match(t) = <<>> THEN createTimeRange(Hours(24), endTime)
  ELSE LET value == parseInt(match(t)[1])
           unit  == match(t)[2]
       IN  createTimeRange(
             CASE unit = "d" -> Hours(value * 24)
               [] unit = "h" -> Hours(value)
               [] unit = "m" -> value,
             endTime)

\* getBinSize of the errors route
getBinSize(t) ==
  IF searchMatch(t) = <<>> THEN "1h"
  ELSE LET value == parseInt(searchMatch(t)[1])
           unit  == searchMatch(t)[2]
       IN  CASE unit = "m" -> "5m"
             [] unit = "h" -> IF value <= 1 THEN "5m"
                              ELSE IF value <= 6 THEN "15m"
                              ELSE "1h"
             [] unit = "d" -> IF value <= 1 THEN "1h"
                              ELSE IF value <= 7 THEN "6h"
                              ELSE "1d"

\* The text of a printed number; a fraction is written out as sixtieths.
NumberText(n) ==
  IF n.sixtieths = 0 THEN ToString(n.whole)
  ELSE ToString(n.whole) \o "+" \o ToString(n.sixtieths) \o "/60"

\* The strings the template literals of createTimeRange produce.
FormText(form) == NumberText(form.n) \o form.unit
IsoText(form) == form.prefix \o NumberText(form.n) \o form.unit

\* the instants of the calls, in minutes
Instants == {525600}

InitTime ==
  /\ RouteAtRest
  /\ NoDisplay
  /\ NoKeys
  /\ NoSql
  /\ NoPools
  /\ NoHealth
  /\ NoAggregation
  /\ NoMerge
  /\ NoNaming
  /\ token \in Tokens
  /\ now \in Instants
  /\ resolved = FALSE
  /\ timeRange = <<>>

\* const timeRange = parseTimeRange(range)
Resolve ==
  /\ ~resolved
  /\ timeRange' = parseTimeRange(token, now)
  /\ resolved' = TRUE
  /\ UNCHANGED <<routeVars, displayVars, keyVars, sqlVars, poolVars, healthVars, mergeVars, nameVars, aggVars, token, now>>

NextTime == Resolve

SpecTime == InitTime /\ [][NextTime]_vars

(***************************************************************************)
(* Naming: mapServiceName applied to a raw name, and to its own result.    *)
(***************************************************************************)
Fragments ==
  { "uvicorn", "UVICORN", "backend", "Backend", "symmetry-", "Symmetry ",
    "ai-features", "-api", "processor", "Processor", "Convo ", "func-sym",
    "__main__", "AI Features API", "Unknown", " ", "web", "Web",
    "constructor" }
RawNames == UNION {[1..n -> Fragments] : n \in 0..MaxFragments}

InitNames ==
  /\ RouteAtRest
  /\ NoDisplay
  /\ NoKeys
  /\ NoSql
  /\ NoPools
  /\ NoHealth
  /\ NoAggregation
  /\ NoMerge
  /\ NoResolution
  /\ serviceName \in RawNames
  /\ nameStep = 0
  /\ canonical = <<>>
  /\ again = <<>>

\* service: mapServiceName(row[0])
Canonicalize ==
  /\ nameStep = 0
  /\ canonical' = mapServiceName(serviceName)
  /\ nameStep' = 1
  /\ UNCHANGED <<routeVars, displayVars, keyVars, sqlVars, poolVars, healthVars, mergeVars, timeVars, aggVars, serviceName, again>>

\* the display name is mapped again
Recanonicalize ==
  /\ nameStep = 1
  /\ again' = mapServiceName(canonical)
  /\ nameStep' = 2
  /\ UNCHANGED <<routeVars, displayVars, keyVars, sqlVars, poolVars, healthVars, mergeVars, timeVars, aggVars, serviceName, canonical>>

NextNames == Canonicalize \/ Recanonicalize

SpecNames == InitNames /\ [][NextNames]_vars

(***************************************************************************)
(* Aggregation: aggregateServiceMetrics applied to a list, to its own      *)
(* result, and to the list in another order.                               *)
(***************************************************************************)
ServiceRecords ==
  [service : {SymmetryBackend, AIFeaturesAPI, ConvoProcessor}, count : 0..2]
ServiceLists == SeqsUpTo(ServiceRecords, MaxRows)

\* the lists that hold the records of list in some order
Reorderings(list) ==
  { [i \in 1..Len(list) |-> list[f[i]]] :
      f \in {g \in [1..Len(list) -> 1..Len(list)] :
               \A i, j \in 1..Len(list) : g[i] = g[j] => i = j} }

InitAggregate ==
  /\ RouteAtRest
  /\ NoDisplay
  /\ NoKeys
  /\ NoSql
  /\ NoPools
  /\ NoHealth
  /\ NoMerge
  /\ NoResolution
  /\ NoNaming
  /\ serviceList \in ServiceLists
  /\ reordered \in Reorderings(serviceList)
  /\ aggStep = 0
  /\ aggregates = [once |-> <<>>, twice |-> <<>>, ofReordered |-> <<>>]

Aggregate ==
  /\ aggStep = 0
  /\ aggregates' = [aggregates EXCEPT !.once = aggregateServiceMetrics(serviceList)]
  /\ aggStep' = 1
  /\ UNCHANGED <<routeVars, displayVars, keyVars, sqlVars, poolVars, healthVars, mergeVars, timeVars, nameVars, serviceList, reordered>>

AggregateAgain ==
  /\ aggStep = 1
  /\ aggregates' =
       [aggregates EXCEPT !.twice = aggregateServiceMetrics(aggregates.once)]
  /\ aggStep' = 2
  /\ UNCHANGED <<routeVars, displayVars, keyVars, sqlVars, poolVars, healthVars, mergeVars, timeVars, nameVars, serviceList, reordered>>

AggregateReordered ==
  /\ aggStep = 2
  /\ aggregates' =
       [aggregates EXCEPT !.ofReordered = aggregateServiceMetrics(reordered)]
  /\ aggStep' = 3
  /\ UNCHANGED <<routeVars, displayVars, keyVars, sqlVars, poolVars, healthVars, mergeVars, timeVars, nameVars, serviceList, reordered>>

NextAggregate == Aggregate \/ AggregateAgain \/ AggregateReordered

SpecAggregate == InitAggregate /\ [][NextAggregate]_vars

(***************************************************************************)
(* The errors route: its own mapServiceName, and the byService list of its *)
(* payload, which is the rows of the errors-by-service query mapped one by *)
(* one.                                                                    *)
(***************************************************************************)
errorsMappings ==
  << [key |-> <<"uvicorn">>, value |-> SymmetryBackend],
     [key |-> <<"symmetry-", "backend">>, value |-> SymmetryBackend],
     [key |-> <<"ai-features", "-api">>, value |-> AIFeaturesAPI],
     [key |-> <<"ai-convo-", "processor">>, value |-> ConvoProcessor] >>

\* mappings[lower] of an object literal: own keys, then inherited ones
errorsLookup(lower) ==
  LET own == {i \in 1..Len(errorsMappings) : errorsMappings[i].key = lower}
  IN  IF own # {} THEN errorsMappings[CHOOSE i \in own : TRUE].value
      ELSE IF lower \in DOMAIN ObjectPrototype THEN ObjectPrototype[lower]
      ELSE <<>>

errorsMapServiceName(rawName) ==
  IF rawName = <<>> THEN Unknown
  ELSE IF rawName \in {ObjectConstructor, TypeError} THEN TypeError
  ELSE LET lower == toLowerCase(rawName)
           hits == {i \in 1..Len(errorsMappings) :
                      includes(lower, errorsMappings[i].key)}
       IN  IF errorsLookup(lower) # <<>>
             THEN errorsLookup(lower)
           ELSE IF hits # {}
             THEN errorsMappings[CHOOSE i \in hits : \A j \in hits : i <= j].value
           ELSE rawName

byService(errorsByService) ==
  [i \in 1..Len(errorsByService) |->
     [service |-> errorsMapServiceName(errorsByService[i].name),
      count |-> errorsByService[i].count]]

\* summarize Count = count() by app | order by Count desc: one row per raw
\* name, the counts positive and falling
ErrorApps ==
  { Unknown, <<"uvicorn">>, <<"symmetry-", "backend">>,
    <<"ai-features", "-api">>, <<"web">> }
ErrorsRows == [name : ErrorApps, count : {2, 3, 5}]
ErrorsByServiceRows ==
  { rows \in SeqsUpTo(ErrorsRows, MaxRows) :
      \A i, j \in 1..Len(rows) :
        i < j => rows[i].name # rows[j].name /\ rows[i].count >= rows[j].count }

\* The query behind a per-service count list has answered with these rows.
InitServiceCounts ==
  /\ RouteAtRest
  /\ NoDisplay
  /\ NoKeys
  /\ NoSql
  /\ NoPools
  /\ NoHealth
  /\ NoAggregation
  /\ NoResolution
  /\ NoNaming
  /\ pair \in {"requests", "errors"}
  /\ primary \in IF pair = "errors" THEN ErrorsByServiceRows ELSE RowsOf(pair)
  /\ fallback \in IF pair = "errors" THEN {<<>>} ELSE RowsOf(pair)
  /\ merged = FALSE
  /\ section = <<>>

ErrorsByService ==
  /\ pair = "errors" /\ ~merged
  /\ section' = byService(primary)
  /\ merged' = TRUE
  /\ UNCHANGED <<routeVars, displayVars, keyVars, sqlVars, poolVars, healthVars, timeVars, nameVars, aggVars, pair, primary, fallback>>

NextServiceCounts == MergeRequests \/ ErrorsByService

SpecServiceCounts == InitServiceCounts /\ [][NextServiceCounts]_vars

(***************************************************************************)
(* The health section of the database payload.  A column of a row is a     *)
(* text, a sequence of characters; a parsed number is <<n>>, and <<>> is   *)
(* NaN.  The hit ratio is parsed in hundredths of a percent.               *)
(***************************************************************************)
\* the text of undefined, as parseInt and parseFloat read it
Undefined == <<"undefined">>
DecimalDigits == {"0", "1", "2", "3", "4", "5", "6", "7", "8", "9"}

\* the digits a text starts with
leadingDigits(text) ==
  LET n == CHOOSE k \in 0..Len(text) :
             /\ \A i \in 1..k : text[i] \in DecimalDigits
             /\ k < Len(text) => text[k + 1] \notin DecimalDigits
  IN  SubSeq(text, 1, n)

\* parseInt(column): the number the leading digits spell, <<>> for NaN
parseIntColumn(column) ==
  IF leadingDigits(column) = <<>> THEN <<>>
  ELSE <<parseInt(leadingDigits(column))>>

\* parseFloat(column), in hundredths: the leading digits, then a point and
\* up to two more digits; <<>> for NaN
parseFloatColumn(column) ==
  LET whole == leadingDigits(column)
      rest == SubSeq(column, Len(whole) + 1, Len(column))
      fraction == IF rest # <<>> /\ Head(rest) = "."
                    THEN leadingDigits(Tail(rest)) ELSE <<>>
      hundredths == IF Len(fraction) = 0 THEN 0
                    ELSE IF Len(fraction) = 1 THEN 10 * parseInt(fraction)
                    ELSE parseInt(SubSeq(fraction, 1, 2))
  IN  IF whole = <<>> /\ fraction = <<>> THEN <<>>
      ELSE <<100 * parseInt(whole) + hundredths>>

\* dbHealth[0] || {}, cacheStats[0] || {}
NoRow == [active_queries |-> Undefined, total_connections |-> Undefined,
          waiting_queries |-> Undefined, cache_hit_ratio |-> Undefined]
firstRow(rows) == IF Len(rows) > 0 THEN rows[1] ELSE NoRow

parsedHealth(rows) ==
  [activeQueries |-> OrZero(parseIntColumn(firstRow(rows).active_queries)),
   totalConnections |-> OrZero(parseIntColumn(firstRow(rows).total_connections)),
   waitingQueries |-> OrZero(parseIntColumn(firstRow(rows).waiting_queries))]

parsedCache_FullByDefault(rows) ==
  [hitRatio |-> IF parseFloatColumn(firstRow(rows).cache_hit_ratio) = <<>>
                  THEN 10000
                  ELSE parseFloatColumn(firstRow(rows).cache_hit_ratio)[1]]

parsedCache(rows) ==
  [hitRatio |-> OrZero(parseFloatColumn(firstRow(rows).cache_hit_ratio))]

min(a, b) == IF a < b THEN a ELSE b

healthScore_NonStrict(cacheP, healthP) ==
  min(100, round(10 * (
    (IF cacheP.hitRatio >= 9500 THEN 30
       ELSE IF cacheP.hitRatio >= 9000 THEN 20 ELSE 10)
    + (IF healthP.activeQueries =< 10 THEN 30
         ELSE IF healthP.activeQueries =< 50 THEN 20 ELSE 10)
    + (IF healthP.waitingQueries =< 5 THEN 20
         ELSE IF healthP.waitingQueries =< 20 THEN 10 ELSE 0)
    + (IF healthP.totalConnections =< 50 THEN 20
         ELSE IF healthP.totalConnections =< 100 THEN 10 ELSE 0))))

healthScore(cacheP, healthP) ==
  min(100, round(10 * (
    (IF cacheP.hitRatio > 9500 THEN 30
       ELSE IF cacheP.hitRatio > 9000 THEN 20 ELSE 10)
    + (IF healthP.activeQueries < 10 THEN 30
         ELSE IF healthP.activeQueries < 50 THEN 20 ELSE 10)
    + (IF healthP.waitingQueries < 5 THEN 20
         ELSE IF healthP.waitingQueries < 20 THEN 10 ELSE 0)
    + (IF healthP.totalConnections < 50 THEN 20
         ELSE IF healthP.totalConnections < 100 THEN 10 ELSE 0))))

healthStatus(score) ==
  IF score >= 80 THEN "healthy" ELSE IF score >= 60 THEN "warning" ELSE "critical"

\* The texts a column may hold
NoNumber == {Undefined, <<>>, <<"x">>}
HealthRows ==
  [active_queries :
     NoNumber \cup {<<"0">>, <<"9">>, <<"1", "0">>, <<"4", "9">>, <<"5", "0">>},
   total_connections :
     NoNumber \cup {<<"4", "9">>, <<"5", "0">>, <<"9", "9">>, <<"1", "0", "0">>},
   waiting_queries :
     NoNumber \cup {<<"4">>, <<"5">>, <<"1", "9">>, <<"2", "0">>},
   cache_hit_ratio : {Undefined}]
CacheRows ==
  [active_queries : {Undefined}, total_connections : {Undefined},
   waiting_queries : {Undefined},
   cache_hit_ratio :
     NoNumber \cup {<<"0">>, <<"9", "0">>, <<"9", "0", ".", "0", "1">>,
                    <<"9", "5">>, <<"9", "5", ".", "0", "1">>,
                    <<"9", "9", ".", "5">>, <<"1", "0", "0">>}]

\* The health and cache queries have answered: no row, or one row.
InitHealth ==
  /\ RouteAtRest
  /\ NoDisplay
  /\ NoKeys
  /\ NoSql
  /\ NoPools
  /\ NoMerge
  /\ NoResolution
  /\ NoNaming
  /\ NoAggregation
  /\ dbHealth \in SeqsUpTo(HealthRows, 1)
  /\ cacheStats \in SeqsUpTo(CacheRows, 1)
  /\ derived = FALSE
  /\ healthOut = <<>>

DeriveHealth ==
  /\ ~derived
  /\ healthOut' =
       [score |-> healthScore(parsedCache(cacheStats), parsedHealth(dbHealth)),
        status |-> healthStatus(
                     healthScore(parsedCache(cacheStats), parsedHealth(dbHealth)))]
  /\ derived' = TRUE
  /\ UNCHANGED <<routeVars, displayVars, keyVars, sqlVars, poolVars, mergeVars, timeVars, nameVars, aggVars, dbHealth, cacheStats>>

NextHealth == DeriveHealth

SpecHealth == InitHealth /\ [][NextHealth]_vars

(***************************************************************************)
(* The connection pools of database.ts.  pools is a record keyed by the    *)
(* env argument, which the routes cast from the query string unchecked; a  *)
(* pool connects to the database getDatabaseConfig selects for the key.    *)
(* A pool is live from new Pool until the promise of its end() resolves.   *)
(***************************************************************************)
EnvArguments == {"prod", "test", "staging"}

\* env === 'prod' ? 'PROD' : 'TEST'
databaseOf(env) == IF env = "prod" THEN "prod" ELSE "test"

\* const pools = { prod: null, test: null }
InitPools ==
  /\ RouteAtRest
  /\ NoDisplay
  /\ NoKeys
  /\ NoSql
  /\ NoMerge
  /\ NoResolution
  /\ NoNaming
  /\ NoAggregation
  /\ NoHealth
  /\ pools = [env \in EnvArguments |-> 0]
  /\ livePools = {}
  /\ closePromises = {}
  /\ closeState = "idle"
  /\ created = 0

\* getPool: the pool under the key, created first when there is none
getPool(env) ==
  IF pools[env] = 0
    THEN /\ created < MaxPools
         /\ created' = created + 1
         /\ pools' = [pools EXCEPT ![env] = created + 1]
         /\ livePools' = livePools \cup
              {[id |-> created + 1, key |-> env, database |-> databaseOf(env),
                max |-> 5, ending |-> FALSE]}
    ELSE UNCHANGED <<pools, livePools, created>>

\* queryDatabase(query, env), up to pool.query
QueryDatabase ==
  \E env \in EnvArguments :
    /\ getPool(env)
    /\ UNCHANGED <<routeVars, displayVars, keyVars, sqlVars, mergeVars, timeVars, nameVars, aggVars, healthVars, closePromises, closeState>>

\* closePools, up to its await: the pools of prod and test are told to end
\* and their slots cleared
ClosePools ==
  /\ closeState = "idle"
  /\ closePromises' = {pools[env] : env \in {"prod", "test"}} \ {0}
  /\ livePools' = {IF p.id \in closePromises' THEN [p EXCEPT !.ending = TRUE] ELSE p :
                     p \in livePools}
  /\ pools' = [env \in EnvArguments |->
                 IF env \in {"prod", "test"} THEN 0 ELSE pools[env]]
  /\ closeState' = "awaiting"
  /\ UNCHANGED <<routeVars, displayVars, keyVars, sqlVars, mergeVars, timeVars, nameVars, aggVars, healthVars, created>>

\* the promise of a pool's end() resolves
PoolEnds ==
  \E p \in livePools :
    /\ p.ending
    /\ livePools' = livePools \ {p}
    /\ UNCHANGED <<routeVars, displayVars, keyVars, sqlVars, mergeVars, timeVars, nameVars, aggVars, healthVars, pools, closePromises, closeState, created>>

\* await Promise.all(closePromises) resumes and closePools returns
ClosePoolsReturns ==
  /\ closeState = "awaiting"
  /\ \A p \in livePools : p.id \notin closePromises
  /\ closeState' = "idle"
  /\ closePromises' = {}
  /\ UNCHANGED <<routeVars, displayVars, keyVars, sqlVars, mergeVars, timeVars, nameVars, aggVars, healthVars, pools, livePools, created>>

NextPools == QueryDatabase \/ ClosePools \/ PoolEnds \/ ClosePoolsReturns

SpecPools == InitPools /\ [][NextPools]_vars

(***************************************************************************)
(* The execute_sql tool of the chat assistant, in the route that runs psql *)
(* (cli) and in the route that uses the pool (sdk).  A query is a sequence *)
(* of words, white space and semicolons; a keyword is one word, so the     *)
(* text starts with a keyword exactly if its first word is that keyword.   *)
(***************************************************************************)
SqlWords == {" ", ";", "SELECT", "select", "DELETE", "delete", "WITH",
             "VACUUM", "1"}
SqlQueries == UNION {[1..n -> SqlWords] : n \in 0..MaxSqlWords}

toUpperWord(w) ==
  CASE w = "select" -> "SELECT"
    [] w = "delete" -> "DELETE"
    [] OTHER -> w
toUpperQuery(query) == [i \in 1..Len(query) |-> toUpperWord(query[i])]

\* String.prototype.trim
RECURSIVE trimQuery(_)
trimQuery(query) ==
  IF query = <<>> THEN query
  ELSE IF Head(query) = " " THEN trimQuery(Tail(query))
  ELSE IF query[Len(query)] = " "
    THEN trimQuery(SubSeq(query, 1, Len(query) - 1))
  ELSE query

\* String.prototype.startsWith(keyword)
startsWith(text, keyword) == text # <<>> /\ Head(text) = keyword

WRITE_KEYWORDS == <<"INSERT", "UPDATE", "DELETE", "DROP", "TRUNCATE", "ALTER",
                    "CREATE", "GRANT", "REVOKE">>

\* TRUE iff executeSql throws before it runs the query
rejectsCli(query) == ~startsWith(toUpperQuery(trimQuery(query)), "SELECT")
rejectsSdk(query) ==
  \E i \in 1..Len(WRITE_KEYWORDS) :
    startsWith(toUpperQuery(trimQuery(query)), WRITE_KEYWORDS[i])
rejects(route, query) ==
  IF route = "cli" THEN rejectsCli(query) ELSE rejectsSdk(query)

ErrorResult == [error |-> TRUE, rows |-> <<>>, count |-> 0]
RowsResult == [error |-> FALSE, rows |-> <<"row">>, count |-> 1]

\* The model has asked for execute_sql with this query.
InitSql ==
  /\ RouteAtRest
  /\ NoDisplay
  /\ NoKeys
  /\ NoMerge
  /\ NoResolution
  /\ NoNaming
  /\ NoAggregation
  /\ NoHealth
  /\ NoPools
  /\ chatRoute \in {"cli", "sdk"}
  /\ sqlQuery \in SqlQueries
  /\ sqlDone = FALSE
  /\ reached = <<>>
  /\ sqlResult = <<>>

\* executeSql(query): the guard throws, or the text goes to the database,
\* which answers with rows or with an error; every throw is caught and
\* becomes the error result
ExecuteSql ==
  /\ ~sqlDone
  /\ IF rejects(chatRoute, sqlQuery)
       THEN reached' = <<>> /\ sqlResult' = ErrorResult
       ELSE reached' = <<sqlQuery>> /\ sqlResult' \in {RowsResult, ErrorResult}
  /\ sqlDone' = TRUE
  /\ UNCHANGED <<routeVars, displayVars, keyVars, mergeVars, timeVars, nameVars, aggVars, healthVars, poolVars, chatRoute, sqlQuery>>

NextSql == ExecuteSql

SpecSql == InitSql /\ [][NextSql]_vars

(***************************************************************************)
(* Cache keys of parameters taken as they come from the query string: the  *)
(* metrics route reads env and range, puts a default in place of an empty  *)
(* one and builds the key without validating either.  A parameter is a     *)
(* string made of the parts below.                                         *)
(***************************************************************************)
KeyParts == {"prod", "-", "7d"}

RECURSIVE concat(_)
concat(parts) == IF parts = <<>> THEN "" ELSE Head(parts) \o concat(Tail(parts))

ParameterStrings == {concat(parts) : parts \in SeqsUpTo(KeyParts, MaxKeyParts)}

\* searchParams.get(name) || fallbackValue
orDefault(value, fallbackValue) == IF value = "" THEN fallbackValue ELSE value

Parameters ==
  {[env |-> orDefault(e, "prod"), range |-> orDefault(g, "24h")] :
     e \in ParameterStrings, g \in ParameterStrings}

\* Two requests to the metrics route, the second after the first has
\* answered.
InitKeys ==
  /\ RouteAtRest
  /\ NoDisplay
  /\ NoMerge
  /\ NoResolution
  /\ NoNaming
  /\ NoAggregation
  /\ NoHealth
  /\ NoPools
  /\ NoSql
  /\ producer \in Parameters
  /\ consumer \in Parameters
  /\ keyCache = <<>>
  /\ keyStep = 0
  /\ served = <<>>

\* the first request misses, fetches and caches its payload
ProduceEntry ==
  /\ keyStep = 0
  /\ keyCache' = setCache("metrics", keyCache,
                   getCacheKey(producer.env, producer.range),
                   Payload(1, producer.env, producer.range, Queries("metrics")))
  /\ keyStep' = 1
  /\ UNCHANGED <<routeVars, displayVars, mergeVars, timeVars, nameVars, aggVars, healthVars, poolVars, sqlVars, producer, consumer, served>>

\* the second request checks the cache
ConsumeEntry ==
  /\ keyStep = 1
  /\ served' = checkCache("metrics", keyCache,
                 getCacheKey(consumer.env, consumer.range), FALSE)
  /\ keyStep' = 2
  /\ UNCHANGED <<routeVars, displayVars, mergeVars, timeVars, nameVars, aggVars, healthVars, poolVars, sqlVars, producer, consumer, keyCache>>

NextKeys == ProduceEntry \/ ConsumeEntry

SpecKeys == InitKeys /\ [][NextKeys]_vars

(***************************************************************************)
(* The copy of mapServiceName in the CLI-based metrics route, and one raw  *)
(* service name as the pages show it: the metrics page through the shared  *)
(* function, the errors page and the CLI-based metrics route through       *)
(* their own.                                                              *)
(***************************************************************************)
cliMappings ==
  << [key |-> <<"uvicorn">>, value |-> SymmetryBackend],
     [key |-> <<"symmetry-", "backend">>, value |-> SymmetryBackend],
     [key |-> <<"asp-sym-", "backend", "-prod">>, value |-> SymmetryBackend],
     [key |-> <<"ai-features", "-api">>, value |-> AIFeaturesAPI],
     [key |-> <<"asp-", "ai-features", "-prod">>, value |-> AIFeaturesAPI],
     [key |-> <<"ai-convo-", "processor">>, value |-> ConvoProcessor],
     [key |-> <<"func-sym", "-", "processor", "-prod">>, value |-> ConvoProcessor] >>

\* mappings[rawName.toLowerCase()]: own keys, then inherited ones
cliLookup(lower) ==
  LET own == {i \in 1..Len(cliMappings) : cliMappings[i].key = lower}
  IN  IF own # {} THEN cliMappings[CHOOSE i \in own : TRUE].value
      ELSE IF lower \in DOMAIN ObjectPrototype THEN ObjectPrototype[lower]
      ELSE <<>>

cliMapServiceName(rawName) ==
  IF rawName = <<>> THEN Unknown
  ELSE IF rawName \in {ObjectConstructor, TypeError} THEN TypeError
  ELSE LET lower == toLowerCase(rawName)
           hits == {i \in 1..Len(cliMappings) :
                      includes(lower, toLowerCase(cliMappings[i].key))}
       IN  IF cliLookup(lower) # <<>>
             THEN cliLookup(lower)
           ELSE IF hits # {}
             THEN cliMappings[CHOOSE i \in hits : \A j \in hits : i <= j].value
           ELSE rawName

Pages == {"metrics", "errors", "metricsCli"}

InitDisplay ==
  /\ RouteAtRest
  /\ NoMerge
  /\ NoResolution
  /\ NoNaming
  /\ NoAggregation
  /\ NoHealth
  /\ NoPools
  /\ NoSql
  /\ NoKeys
  /\ rawService \in RawNames
  /\ shownOn = [p \in Pages |-> <<>>]

\* a page maps the raw name of a row
ShowOnMetrics ==
  /\ shownOn["metrics"] = <<>>
  /\ shownOn' = [shownOn EXCEPT !["metrics"] = <<mapServiceName(rawService)>>]
  /\ UNCHANGED <<routeVars, mergeVars, timeVars, nameVars, aggVars, healthVars, poolVars, sqlVars, keyVars, rawService>>

ShowOnErrors ==
  /\ shownOn["errors"] = <<>>
  /\ shownOn' = [shownOn EXCEPT !["errors"] = <<errorsMapServiceName(rawService)>>]
  /\ UNCHANGED <<routeVars, mergeVars, timeVars, nameVars, aggVars, healthVars, poolVars, sqlVars, keyVars, rawService>>

ShowOnMetricsCli ==
  /\ shownOn["metricsCli"] = <<>>
  /\ shownOn' = [shownOn EXCEPT !["metricsCli"] = <<cliMapServiceName(rawService)>>]
  /\ UNCHANGED <<routeVars, mergeVars, timeVars, nameVars, aggVars, healthVars, poolVars, sqlVars, keyVars, rawService>>

NextDisplay == ShowOnMetrics \/ ShowOnErrors \/ ShowOnMetricsCli

SpecDisplay == InitDisplay /\ [][NextDisplay]_vars

(***************************************************************************)
(* Steps and states the properties speak of.                               *)
(***************************************************************************)
KeyOf(r) == CacheKeyOf(ep, req[r].env, req[r].range)

\* The entry the cache c holds under request r's key, if any.
Holds(c, r) == IndexOf(c, KeyOf(r)) # 0
Held(c, r) == c[IndexOf(c, KeyOf(r))]

\* Request r arrives in this step (its parameters are those of req').
Arrives(r) == req[r].pc = "idle" /\ req'[r].pc # "idle"
ArrivalKey(r) == CacheKeyOf(ep, req'[r].env, req'[r].range)

\* Request r resumes from its fan-out in this step and answers.
AnswersOk(r) == req[r].pc = "fetching" /\ req'[r].pc = "done" /\ req'[r].status = "ok"
AnswersError(r) == req[r].pc = "fetching" /\ req'[r].pc = "done" /\ req'[r].status = "error"

\* Request r has answered with a payload it fetched itself.
Fetched(r) == req[r].pc = "done" /\ req[r].status = "ok" /\ ~req[r].fromCache

(***************************************************************************)
(* C1.  If exactly one sub-query of a request fails and all its others     *)
(* succeed, the request answers with a success payload whose sections are  *)
(* populated except the failed one.  Stated for the routes that issue more *)
(* than one sub-query.  The database route violates it: a failure of       *)
(* entityCounts rejects Promise.all and the handler answers 500.           *)
(***************************************************************************)
C1_FailureIsolation ==
  \A r \in Requests :
    ( /\ Cardinality(Queries(ep)) > 1
      /\ req[r].pc = "done" /\ ~req[r].fromCache
      /\ req[r].pending = {}
      /\ Cardinality(req[r].failed) = 1 )
    => /\ req[r].status = "ok"
       /\ req[r].payload.populated = Queries(ep) \ req[r].failed

(***************************************************************************)
(* C2.  Without the required configuration every request ends in an error  *)
(* response and nothing is ever cached.  The metrics and LLM routes        *)
(* violate it: the thrown configuration error is caught inside the query   *)
(* function, and the all-empty payload is answered and cached.             *)
(***************************************************************************)
C2_ConfigErrorIsFatal ==
  ~configured =>
    /\ \A r \in Requests : req[r].pc = "done" => req[r].status = "error"
    /\ cache = <<>>

(***************************************************************************)
(* C3.  For each primary/fallback pair of the metrics endpoint (requests   *)
(* by service with traces by service behind it, performance from traces    *)
(* with performance from requests behind it) the section of the payload is *)
(* the fallback's parsed result when the primary's parsed result is empty, *)
(* and the primary's parsed result whenever that is not empty, all-zero    *)
(* values included.                                                        *)
(***************************************************************************)
ParsedPrimary ==
  IF pair = "requests" THEN requestsData(primary) ELSE perfFromTraces(primary)
ParsedFallback ==
  IF pair = "requests" THEN traceServiceData(fallback)
  ELSE perfFromRequests(fallback)

C3_FallbackIffPrimaryEmpty ==
  merged =>
    /\ Len(ParsedPrimary) = 0 => section = ParsedFallback
    /\ Len(ParsedPrimary) > 0 => section = ParsedPrimary

\* The requests query returned named services whose counts are all zero, the
\* traces query returned a service with a positive count, and the section is
\* the all-zero primary result.
C3_Witness ==
  /\ merged /\ pair = "requests"
  /\ Len(ParsedPrimary) > 0
  /\ \A i \in 1..Len(ParsedPrimary) : ParsedPrimary[i].count = 0
  /\ \E i \in 1..Len(ParsedFallback) : ParsedFallback[i].count > 0
  /\ section = ParsedPrimary
  /\ section # ParsedFallback

(***************************************************************************)
(* C4.  Reading the cache.  As claimed (C4_StrictTtl): a read without      *)
(* refresh returns the entry held under the key iff its age is below the   *)
(* TTL, and a read right after a write returns what was written.  The      *)
(* shared LRU caches still serve an entry whose age equals the TTL, so the *)
(* statement that holds (C4_RoundTrip) is: valid iff age <= TTL on the LRU *)
(* caches, iff age < TTL on the route-local caches.                        *)
(***************************************************************************)
ReadAgrees(r, lruServesAtTtl) ==
  LET i     == IndexOf(cache, ArrivalKey(r))
      valid == /\ i # 0
               /\ \/ cache[i].age < TTL(ep)
                  \/ lruServesAtTtl /\ CacheKind(ep) = "lru" /\ cache[i].age = TTL(ep)
  IN  (Arrives(r) /\ ~req'[r].refresh) =>
        /\ req'[r].fromCache <=> valid
        /\ valid => req'[r].payload = cache[i].data

ReadsBackWrite(r) ==
  AnswersOk(r) => checkCache(ep, cache', KeyOf(r), FALSE) = req'[r].payload

C4_RoundTrip ==
  [][\A r \in Requests : ReadAgrees(r, TRUE) /\ ReadsBackWrite(r)]_vars

C4_StrictTtl ==
  [][\A r \in Requests : ReadAgrees(r, FALSE) /\ ReadsBackWrite(r)]_vars

\* A request was answered from the cache in the minute of the write: the
\* entry it was served is held at age 0.
C4_Witness ==
  \E r \in Requests :
    /\ req[r].fromCache
    /\ Holds(cache, r)
    /\ Held(cache, r).age = 0
    /\ Held(cache, r).data = req[r].payload

(***************************************************************************)
(* C5.  A request with refresh=true is never answered from the cache, and  *)
(* its cache check leaves the cache exactly as it was.                     *)
(***************************************************************************)
C5_BypassLeavesCache ==
  [][\A r \in Requests :
       (Arrives(r) /\ req'[r].refresh) =>
         /\ ~req'[r].fromCache
         /\ req'[r].payload = NoPayload
         /\ cache' = cache]_vars

\* A refresh request is fetching although the cache held an entry under its
\* key when it arrived, and that entry, written this very minute by the
\* earlier request, is still held untouched.
C5_Witness ==
  \E r, w \in Requests :
    /\ w < r
    /\ Fetched(w) /\ KeyOf(w) = KeyOf(r)
    /\ req[r].refresh /\ req[r].hadEntry
    /\ req[r].pc = "fetching"
    /\ Holds(cache, r)
    /\ Held(cache, r).age = 0
    /\ Held(cache, r).data = req[w].payload

(***************************************************************************)
(* C6.  Every cache write, that of a refresh request included, leaves      *)
(* exactly one entry under the key: the writer's own freshly fetched       *)
(* payload, at age zero.                                                   *)
(***************************************************************************)
C6_WriteOverwrites ==
  [][\A r \in Requests :
       AnswersOk(r) =>
         LET k == KeyOf(r)
         IN  /\ Cardinality({i \in 1..Len(cache') : cache'[i].key = k}) = 1
             /\ cache'[IndexOf(cache', k)].data = req'[r].payload
             /\ cache'[IndexOf(cache', k)].age = 0
             /\ req'[r].payload.rid = r]_vars

\* A refresh request has overwritten the payload of an earlier request, and
\* the entry now held is its own payload at age 0.
C6_Witness ==
  \E r \in Requests :
    /\ req[r].refresh /\ Fetched(r)
    /\ req[r].replaced # 0 /\ req[r].replaced # r
    /\ Holds(cache, r)
    /\ Held(cache, r).data = req[r].payload
    /\ Held(cache, r).data.rid = r
    /\ Held(cache, r).age = 0

(***************************************************************************)
(* C7.  Cache entries are written whole or not at all: a request that      *)
(* answers with an error leaves the cache unchanged; a request writes only *)
(* when none of its sub-queries is pending, and what it writes is its      *)
(* complete payload; every entry of the cache is either the entry that was *)
(* there before the step or the complete payload of the one request that   *)
(* answered in the step.                                                   *)
(***************************************************************************)
C7_AllOrNothing ==
  [][/\ \A r \in Requests : AnswersError(r) => cache' = cache
     /\ \A r \in Requests :
          AnswersOk(r) =>
            /\ req'[r].pending = {}
            /\ req'[r].payload =
                 Payload(r, req[r].env, req[r].range, Queries(ep) \ req'[r].failed)
     /\ \A i \in 1..Len(cache') :
          \/ \E j \in 1..Len(cache) :
               cache[j].key = cache'[i].key /\ cache[j].data = cache'[i].data
          \/ \E r \in Requests :
               /\ AnswersOk(r)
               /\ cache'[i].key = KeyOf(r)
               /\ cache'[i].data = req'[r].payload]_vars

\* A request has ended in an error response while the cache holds, under
\* its key, the payload of the other request.
C7_Witness ==
  \E r, w \in Requests :
    /\ req[r].pc = "done" /\ req[r].status = "error"
    /\ Fetched(w) /\ KeyOf(w) = KeyOf(r)
    /\ Holds(cache, r)
    /\ Held(cache, r).data = req[w].payload

(***************************************************************************)
(* C8.  A payload served from the cache was fetched for the environment of *)
(* the request it is served to.  The LLM route (key "llm-<range>") and the *)
(* CLI-based deployments route (one deployCache for both environments)     *)
(* violate it.                                                             *)
(***************************************************************************)
C8_EnvPartition ==
  \A r \in Requests : req[r].fromCache => req[r].payload.env = req[r].env

(***************************************************************************)
(* C9.  Requests for the same key that miss concurrently each run their    *)
(* own full set of sub-queries and each answer with the payload built from *)
(* their own results; of two such requests the later writer's payload      *)
(* overwrites the earlier writer's, which the cache no longer holds; and   *)
(* the cache holds at most one entry per key, always the payload of the    *)
(* request that wrote the key last.                                        *)
(***************************************************************************)
C9_ConcurrentMisses ==
  /\ \A a, b \in Requests :
       ( /\ a # b
         /\ Fetched(a) /\ Fetched(b)
         /\ KeyOf(a) = KeyOf(b)
         /\ req[b].replaced = a )
       => /\ req[a].payload.rid = a
          /\ req[b].payload.rid = b
          /\ req[a].payload.populated \cup req[a].failed = Queries(ep)
          /\ req[b].payload.populated \cup req[b].failed = Queries(ep)
          /\ \A i \in 1..Len(cache) : cache[i].data # req[a].payload
  /\ \A i \in 1..Len(cache) :
       /\ \A j \in 1..Len(cache) : cache[j].key = cache[i].key => j = i
       /\ \E b \in Requests :
            /\ Fetched(b) /\ KeyOf(b) = cache[i].key
            /\ cache[i].data = req[b].payload
            /\ \A c \in Requests : req[c].replaced # b

\* Both requests missed without refresh; the second found no entry under the
\* key when it arrived, yet overwrote the first's entry: the first wrote
\* while the second was fetching.
C9_Witness ==
  \E a, b \in Requests :
    /\ a # b
    /\ Fetched(a) /\ Fetched(b)
    /\ ~req[a].refresh /\ ~req[b].refresh
    /\ KeyOf(a) = KeyOf(b)
    /\ ~req[b].hadEntry
    /\ req[b].replaced = a
    /\ Held(cache, b).data = req[b].payload

(***************************************************************************)
(* C10.  A request has answered only when none of the sub-queries it       *)
(* issued is still pending.  The database route violates it: Promise.all   *)
(* rejects at the first rejected sub-query and the handler answers 500     *)
(* while the others are in flight.                                         *)
(***************************************************************************)
C10_FanIn ==
  \A r \in Requests : req[r].pc = "done" => req[r].pending = {}

(***************************************************************************)
(* C11.  No route serves a cached payload older than its TTL, counted from *)
(* the write and not extended by reads: 1 minute for error data, 2 minutes *)
(* for database and deployment data, 5 minutes for request and LLM         *)
(* metrics.  The age of an entry only restarts at a write (Entry), so the  *)
(* age a hit finds is the time since the write.                            *)
(***************************************************************************)
StatedTtl(e) ==
  CASE e = "errors"                          -> 1
    [] e \in {"database", "deployments", "deploymentsCli"} -> 2
    [] e \in {"metrics", "llm"}              -> 5

BuiltTtl(e) ==
  CASE e \in {"errors", "database", "deploymentsCli"} -> 2
    [] e = "deployments"                               -> 10
    [] e \in {"metrics", "llm"}                        -> 5

Capacity(e) == IF CacheKind(e) = "slot" THEN 1 ELSE LruMax

C12_Bounded ==
  [][/\ Len(cache') <= Capacity(ep)
     /\ \A r \in Requests :
          (AnswersOk(r) /\ ~Holds(cache, r) /\ Len(cache) = Capacity(ep)) =>
            /\ Len(cache') = Capacity(ep)
            /\ \A i \in 1..Len(cache') : cache'[i].key # Head(cache).key
            /\ \A i \in 2..Len(cache) :
                 \E j \in 1..Len(cache') : cache'[j] = cache[i]]_vars

(***************************************************************************)
(* C13.  A range token that is not <integer><unit>, unit one of m, h, d,   *)
(* resolves (without an exception) to the default range: hours = 24 and    *)
(* exactly the TimeRange that the token "24h" resolves to.                 *)
(***************************************************************************)
IsRangeToken(t) ==
  /\ Len(t) >= 2
  /\ t[Len(t)] \in {"m", "h", "d"}
  /\ \A i \in 1..(Len(t) - 1) : t[i] \in Digits

C13_MalformedIsDefault ==
  (resolved /\ ~IsRangeToken(token)) =>
    /\ timeRange.hours = Hours(24)
    /\ timeRange = parseTimeRange(<<"2", "4", "h">>, now)

\* A token with a number and a unit in it, yet malformed, has resolved to
\* 24 hours.
C13_Witness ==
  /\ resolved
  /\ token = <<"-", "7", "d">>
  /\ timeRange.hours = Hours(24)
  /\ timeRange.raw = [n |-> PrintedWhole(1), unit |-> "d"]

(***************************************************************************)
(* C14.  Every TimeRange that parseTimeRange returns has hours > 0 and a   *)
(* start instant strictly before its end instant; a token of zero          *)
(* magnitude ("0m", "0h", "0d") resolves to the default 24 hours.          *)
(***************************************************************************)
C14_PositiveMagnitude ==
  resolved =>
    /\ timeRange.hours > 0
    /\ timeRange.isoStart < timeRange.isoEnd
    /\ (IsRangeToken(token) /\ \A i \in 1..(Len(token) - 1) : token[i] = "0")
         => timeRange.hours = Hours(24)

(***************************************************************************)
(* C15.  For every valid range token the log-engine duration (raw), the    *)
(* SQL interval, the ISO-8601 duration and the span from start to end each *)
(* denote exactly the duration of `hours`, which is the duration the token *)
(* names; and every valid token naming the same duration resolves to the   *)
(* same hours and the same derived forms.                                  *)
(***************************************************************************)
UnitMinutes(u) ==
  CASE u \in {"d", " days", "D"}    -> 1440
    [] u \in {"h", " hours", "H"}   -> 60
    [] u \in {"m", " minutes"}      -> 1

\* The duration a printed number with a unit denotes, in minutes; -1 when it
\* is not a whole number of minutes.
Denoted(form) ==
  IF (form.n.sixtieths * UnitMinutes(form.unit)) % 60 # 0 THEN -1
  ELSE form.n.whole * UnitMinutes(form.unit)
         + (form.n.sixtieths * UnitMinutes(form.unit)) \div 60

\* The duration a valid token names, in minutes.
TokenMinutes(t) ==
  parseInt(SubSeq(t, 1, Len(t) - 1)) * UnitMinutes(t[Len(t)])

RangeTokens == {t \in Tokens : IsRangeToken(t)}

\* hours and the derived forms of a TimeRange, without its two instants
Forms(tr) ==
  [hours |-> tr.hours, raw |-> tr.raw,
   postgresInterval |-> tr.postgresInterval,
   azureInterval |-> tr.azureInterval, isoDuration |-> tr.isoDuration]

\* the duration named and the forms resolved, for every valid token
ResolvedForms ==
  { <<TokenMinutes(t), Forms(parseTimeRange(t, 0))>> : t \in RangeTokens }

GranularityMinutes(g) ==
  CASE g = "PT5M" -> 5 [] g = "PT15M" -> 15 [] g = "PT1H" -> 60
    [] g = "PT6H" -> 360 [] g = "P1D" -> 1440 [] OTHER -> 0

\* hours and granularity of every valid token
ResolvedGranularities ==
  { <<parseTimeRange(t, 0).hours, parseTimeRange(t, 0).azureInterval>> :
      t \in RangeTokens }

C16_Granularity ==
  resolved =>
    LET h == timeRange.hours
        g == GranularityMinutes(timeRange.azureInterval)
    IN  /\ g \in {5, 15, 60, 360, 1440}
        /\ g = (IF h <= 60 THEN 5
                ELSE IF h <= 360 THEN 15
                ELSE IF h <= 1440 THEN 60
                ELSE IF h <= 4320 THEN 360
                ELSE 1440)
        /\ g >= 5
        /\ \A p \in ResolvedGranularities :
             p[1] <= h => GranularityMinutes(p[2]) <= g

\* "72h", the last range with 6-hour buckets.
C16_Witness ==
  /\ resolved
  /\ token = <<"7", "2", "h">>
  /\ timeRange.hours = Hours(72)
  /\ timeRange.azureInterval = "PT6H"

(***************************************************************************)
(* C17.  The range "7d" resolves to hours = 168, log-engine duration "7d", *)
(* SQL interval "7 days", ISO duration "P7D".  As stated                   *)
(* (C17_SevenDaysSixHourBucket) its metrics granularity is 6 hours; as     *)
(* built (C17_SevenDays) the metrics granularity is 1 day, and 6 hours is  *)
(* the bin size of the time series of the errors route.                    *)
(***************************************************************************)
SevenDays == <<"7", "d">>

SevenDaysForms ==
  /\ timeRange.hours = Hours(168)
  /\ FormText(timeRange.raw) = "7d"
  /\ FormText(timeRange.postgresInterval) = "7 days"
  /\ IsoText(timeRange.isoDuration) = "P7D"

C17_SevenDaysSixHourBucket ==
  (resolved /\ token = SevenDays) =>
    /\ SevenDaysForms
    /\ timeRange.azureInterval = "PT6H"

C17_SevenDays ==
  (resolved /\ token = SevenDays) =>
    /\ SevenDaysForms
    /\ timeRange.azureInterval = "P1D"
    /\ getBinSize(token) = "6h"

C17_Witness ==
  /\ resolved /\ token = SevenDays
  /\ timeRange.hours = Hours(168)
  /\ GranularityMinutes(timeRange.azureInterval) = 1440

(***************************************************************************)
(* C18.  mapServiceName is idempotent: mapping the result of a mapping     *)
(* gives that result again, for every raw name; and each of the display    *)
(* names "Symmetry Backend", "AI Features API", "Convo Processor",         *)
(* "Unknown" maps to itself.                                               *)
(***************************************************************************)
C18_Idempotent ==
  /\ nameStep = 2 => again = canonical
  /\ (nameStep >= 1 /\ serviceName \in {SymmetryBackend, AIFeaturesAPI,
                                    ConvoProcessor, Unknown})
       => canonical = serviceName

(***************************************************************************)
(* C19.  The display name is a case-insensitive function of the raw name:  *)
(* two raw names that differ only in letter case get the same display      *)
(* name, whether or not a rule matches them.                               *)
(***************************************************************************)
C19_CaseInsensitive ==
  nameStep >= 1 =>
    \A other \in RawNames :
      toLowerCase(other) = toLowerCase(serviceName) =>
        mapServiceName(other) = canonical

(***************************************************************************)
(* C20.  aggregateServiceMetrics is idempotent, and its result does not    *)
(* depend on the order of its input: the aggregate of the aggregate is the *)
(* aggregate, and every reordering of the input gives the same list in the *)
(* same order, records with equal counts included.                         *)
(***************************************************************************)
C20_OrderIndependent ==
  /\ aggStep >= 2 => aggregates.twice = aggregates.once
  /\ aggStep = 3 => aggregates.ofReordered = aggregates.once

(***************************************************************************)
(* C21.  Every per-service count list of a payload (requestsByService of   *)
(* the metrics endpoint, byService of the errors endpoint) holds at most   *)
(* one record per display name, the count of a record is the sum of the    *)
(* counts of the rows whose raw name maps to that display name, and the    *)
(* records are in falling order of count.                                  *)
(***************************************************************************)
\* the rows the list is built from, each under its display name
CountedRows ==
  IF pair = "errors" THEN byService(primary)
  ELSE IF Len(requestsData(primary)) > 0
    THEN ServiceMetrics(SelectSeq(primary, LAMBDA row : row.name # <<>>))
  ELSE ServiceMetrics(SelectSeq(fallback,
                        LAMBDA row : row.name # <<>> /\ row.name # Unknown))

RECURSIVE TotalOf(_, _)
TotalOf(list, name) ==
  IF list = <<>> THEN 0
  ELSE (IF Head(list).service = name THEN Head(list).count ELSE 0)
         + TotalOf(Tail(list), name)

OnePerName(list) ==
  \A i, j \in 1..Len(list) : i # j => list[i].service # list[j].service
Falling(list) ==
  \A i, j \in 1..Len(list) : i < j => list[i].count >= list[j].count
Sums(list, rows) ==
  /\ \A i \in 1..Len(list) : list[i].count = TotalOf(rows, list[i].service)
  /\ \A i \in 1..Len(rows) : \E j \in 1..Len(list) : list[j].service = rows[i].service

C21_AggregatedLists ==
  merged => OnePerName(section) /\ Falling(section) /\ Sums(section, CountedRows)

\* the same, of the metrics endpoint's list alone
C21_RequestsByService ==
  merged /\ pair = "requests" =>
    OnePerName(section) /\ Falling(section) /\ Sums(section, CountedRows)

(***************************************************************************)
(* C22.  The health score is the policy table's: the sum, capped at 100,   *)
(* of 30/20/10 for a hit ratio above 95 / above 90 / otherwise, 30/20/10   *)
(* for fewer than 10 / fewer than 50 / more active queries, 20/10/0 for    *)
(* fewer than 5 / fewer than 20 / more waiting queries and 20/10/0 for     *)
(* fewer than 50 / fewer than 100 / more connections; the status is        *)
(* healthy from 80, warning from 60 and critical below.  The best          *)
(* indicators give 100 and healthy, the worst give less than 60 and        *)
(* critical, and no improvement of one indicator lowers the score.         *)
(***************************************************************************)
Indicators == [hitRatio |-> parsedCache(cacheStats).hitRatio,
               activeQueries |-> parsedHealth(dbHealth).activeQueries,
               waitingQueries |-> parsedHealth(dbHealth).waitingQueries,
               totalConnections |-> parsedHealth(dbHealth).totalConnections]

TableScore(i) ==
  LET s_hit == CASE i.hitRatio > 9500 -> 30 [] i.hitRatio > 9000 -> 20 [] OTHER -> 10
      s_active == CASE i.activeQueries < 10 -> 30 [] i.activeQueries < 50 -> 20
                    [] OTHER -> 10
      s_waiting == CASE i.waitingQueries < 5 -> 20 [] i.waitingQueries < 20 -> 10
                     [] OTHER -> 0
      s_conn == CASE i.totalConnections < 50 -> 20 [] i.totalConnections < 100 -> 10
                  [] OTHER -> 0
      sum == s_hit + s_active + s_waiting + s_conn
  IN  IF sum > 100 THEN 100 ELSE sum

TableStatus(score) ==
  CASE score >= 80 -> "healthy"
    [] 60 =< score /\ score < 80 -> "warning"
    [] OTHER -> "critical"

BestCase(i) ==
  i.hitRatio > 9500 /\ i.activeQueries < 10 /\ i.waitingQueries < 5
    /\ i.totalConnections < 50
WorstCase(i) ==
  i.hitRatio =< 9000 /\ i.activeQueries >= 50 /\ i.waitingQueries >= 20
    /\ i.totalConnections >= 100

\* the indicator values of the policy table's boundaries
HitRatios == {0, 9000, 9001, 9500, 9501, 10000}
QueryCounts == {0, 4, 5, 9, 10, 19, 20, 49, 50, 99, 100}
\* i with one indicator improved
Improvements(i) ==
  {[i EXCEPT !.hitRatio = h] : h \in {x \in HitRatios : x > i.hitRatio}}
    \cup {[i EXCEPT !.activeQueries = n] :
            n \in {x \in QueryCounts : x < i.activeQueries}}
    \cup {[i EXCEPT !.waitingQueries = n] :
            n \in {x \in QueryCounts : x < i.waitingQueries}}
    \cup {[i EXCEPT !.totalConnections = n] :
            n \in {x \in QueryCounts : x < i.totalConnections}}

C22_PolicyTable ==
  derived =>
    /\ healthOut.score = TableScore(Indicators)
    /\ healthOut.status = TableStatus(healthOut.score)
    /\ BestCase(Indicators) => healthOut.score = 100 /\ healthOut.status = "healthy"
    /\ WorstCase(Indicators) => healthOut.score < 60 /\ healthOut.status = "critical"
    /\ \A j \in Improvements(Indicators) :
         healthScore([hitRatio |-> j.hitRatio], j) >= healthOut.score

\* A hit ratio of exactly 95 beside the best of the other indicators: 90,
\* not 100.
C22_Witness ==
  /\ derived
  /\ Indicators.hitRatio = 9500 /\ Indicators.activeQueries = 9
  /\ Indicators.waitingQueries = 4 /\ Indicators.totalConnections = 49
  /\ healthOut = [score |-> 90, status |-> "healthy"]

(***************************************************************************)
(* C29.  The health score is a multiple of 10 from 20 to 100, the cap at   *)
(* 100 never changes the sum of the sub-scores, and when no indicator's    *)
(* column parses to a number (rows missing, columns missing or without a   *)
(* number), so that every indicator is 0, the score is 80 and the status   *)
(* is healthy.                                                             *)
(***************************************************************************)
SubScoreSum(i) ==
  (IF i.hitRatio > 9500 THEN 30 ELSE IF i.hitRatio > 9000 THEN 20 ELSE 10)
    + (IF i.activeQueries < 10 THEN 30 ELSE IF i.activeQueries < 50 THEN 20 ELSE 10)
    + (IF i.waitingQueries < 5 THEN 20 ELSE IF i.waitingQueries < 20 THEN 10 ELSE 0)
    + (IF i.totalConnections < 50 THEN 20
         ELSE IF i.totalConnections < 100 THEN 10 ELSE 0)

AllDefaults ==
  /\ parseFloatColumn(firstRow(cacheStats).cache_hit_ratio) = <<>>
  /\ parseIntColumn(firstRow(dbHealth).active_queries) = <<>>
  /\ parseIntColumn(firstRow(dbHealth).waiting_queries) = <<>>
  /\ parseIntColumn(firstRow(dbHealth).total_connections) = <<>>

C29_ScoreRange ==
  derived =>
    /\ healthOut.score \in {10 * k : k \in 2..10}
    /\ healthOut.score = SubScoreSum(Indicators)
    /\ AllDefaults => healthOut = [score |-> 80, status |-> "healthy"]

\* Neither query returned a row.
C29_Witness ==
  /\ derived /\ dbHealth = <<>> /\ cacheStats = <<>>
  /\ AllDefaults
  /\ healthOut.score = 80

(***************************************************************************)
(* C23.  Whatever queryDatabase and closePools calls have been made, at    *)
(* most one live pool exists per environment and at most two in all, every *)
(* pool was created with a maximum of 5 connections, and when closePools   *)
(* returns no live pool remains.                                           *)
(***************************************************************************)
PerEnvironmentSingletons ==
  /\ \A p, q \in livePools : p.database = q.database => p = q
  /\ Cardinality(livePools) =< 2
  /\ \A p \in livePools : p.max = 5

C23_PoolSingletons ==
  [][/\ PerEnvironmentSingletons'
     /\ closeState = "awaiting" /\ closeState' = "idle" => livePools' = {}]_vars

\* the same, of the pool size alone
C23_PoolSize == \A p \in livePools : p.max = 5

(***************************************************************************)
(* C24.  mapServiceName applies its rules in a fixed precedence.  For a    *)
(* non-empty raw name: a key of the exact-match table equal to the         *)
(* lower-cased name decides the display name; otherwise the first partial  *)
(* match in list order decides it, so a name holding both an AI-features   *)
(* fragment and "backend" is "AI Features API"; and a name that no rule    *)
(* matches is returned unchanged.                                          *)
(***************************************************************************)
LowerName == trim(toLowerCase(serviceName))
ExactRule == LowerName \in DOMAIN SERVICE_NAME_MAPPINGS
SubstringRules == {i \in 1..Len(partialMatches) :
                     includes(LowerName, partialMatches[i].pattern)}
BothFragments ==
  /\ includes(LowerName, <<"backend">>)
  /\ \/ includes(LowerName, <<"ai-features">>)
     \/ includes(LowerName, <<"ai_features">>)
     \/ includes(LowerName, <<"aifeatures">>)

Precedence ==
  /\ ExactRule => canonical = SERVICE_NAME_MAPPINGS[LowerName]
  /\ ~ExactRule /\ SubstringRules # {} =>
       \E i \in SubstringRules :
         /\ \A j \in SubstringRules : i =< j
         /\ canonical = partialMatches[i].name
  /\ ~ExactRule /\ BothFragments => canonical = AIFeaturesAPI
  /\ ~ExactRule /\ SubstringRules = {} => canonical = serviceName

C24_Precedence ==
  nameStep >= 1 /\ serviceName # <<>> => Precedence

\* the same, of the names that are not keys the table inherits
C24_OwnKeys ==
  nameStep >= 1 /\ serviceName # <<>> /\ LowerName \notin DOMAIN ObjectPrototype
    => Precedence

(***************************************************************************)
(* C25.  execute_sql lets only SELECT queries through: a text reaches the  *)
(* database only if every statement in it is a SELECT, and for every other *)
(* text the tool returns the error result and nothing reaches the          *)
(* database.                                                               *)
(***************************************************************************)
\* the statements of a text: what lies between semicolons, white space aside
RECURSIVE Statements(_, _)
Statements(text, current) ==
  IF text = <<>> THEN (IF current = <<>> THEN {} ELSE {current})
  ELSE IF Head(text) = ";"
    THEN (IF current = <<>> THEN {} ELSE {current}) \cup Statements(Tail(text), <<>>)
  ELSE IF Head(text) = " " /\ current = <<>> THEN Statements(Tail(text), current)
  ELSE Statements(Tail(text), Append(current, Head(text)))

IsSelectQuery(text) ==
  /\ Statements(text, <<>>) # {}
  /\ \A s \in Statements(text, <<>>) : Head(s) \in {"SELECT", "select"}

C25_OnlySelect ==
  sqlDone =>
    /\ reached # <<>> => IsSelectQuery(reached[1])
    /\ ~IsSelectQuery(sqlQuery) => reached = <<>> /\ sqlResult = ErrorResult

\* the same, of texts that start with one of the blocked keywords
C25_WriteKeywordsBlocked ==
  sqlDone /\ sqlQuery # <<>> /\ toUpperWord(Head(sqlQuery)) = "DELETE" =>
    reached = <<>> /\ sqlResult = ErrorResult

(***************************************************************************)
(* C26.  Cache freshness never regresses: a payload written over another   *)
(* payload of the same key was not fetched before it.  Requests issue      *)
(* their queries in the order of their arrival numbers, so the payload     *)
(* that request r writes never replaces the payload of a later request.    *)
(***************************************************************************)
C26_FreshnessNeverRegresses ==
  \A r \in Requests :
    Fetched(r) /\ req[r].replaced # 0 => req[r].replaced =< r

\* the same, of the payload a request is answered with from the cache: it
\* was fetched by an earlier request
C26_ServedFromEarlier ==
  \A r \in Requests :
    req[r].pc = "done" /\ req[r].fromCache => req[r].payload.rid < r

(***************************************************************************)
(* C27.  A payload with sections degraded to empty by failed sub-queries   *)
(* is cached like a complete one: the request that assembled it leaves it  *)
(* in the cache under its key at age zero, and while it is held within the *)
(* TTL every request for that key without refresh is answered with that    *)
(* very payload and issues no sub-query.                                   *)
(***************************************************************************)
Degraded(p) == p # NoPayload /\ p.populated # Queries(ep)

C27_DegradedIsCached ==
  [][\A r \in Requests :
       /\ (AnswersOk(r) /\ Degraded(req'[r].payload)) =>
            /\ IndexOf(cache', KeyOf(r)) # 0
            /\ cache'[IndexOf(cache', KeyOf(r))].data = req'[r].payload
            /\ cache'[IndexOf(cache', KeyOf(r))].age = 0
       /\ ( /\ Arrives(r) /\ ~req'[r].refresh
            /\ IndexOf(cache, ArrivalKey(r)) # 0
            /\ Degraded(cache[IndexOf(cache, ArrivalKey(r))].data)
            /\ cache[IndexOf(cache, ArrivalKey(r))].age < TTL(ep) ) =>
            /\ req'[r].pc = "done" /\ req'[r].status = "ok"
            /\ req'[r].fromCache
            /\ req'[r].payload = cache[IndexOf(cache, ArrivalKey(r))].data
            /\ req'[r].pending = {}]_vars

\* A request was answered from the cache, a minute or more after the write,
\* with the payload of an earlier request one of whose sub-queries failed.
C27_Witness ==
  \E r, w \in Requests :
    /\ w < r
    /\ Fetched(w) /\ req[w].failed # {} /\ Degraded(req[w].payload)
    /\ req[r].pc = "done" /\ req[r].fromCache /\ ~req[r].refresh
    /\ req[r].payload = req[w].payload
    /\ req[r].servedAge >= 1
    /\ req[r].pending = {}

(***************************************************************************)
(* C28.  The cache key is injective in (environment, range), whatever the  *)
(* parameter strings: requests whose environment or range differ never get *)
(* the same key, so a payload found in the cache was produced by a request *)
(* with the same environment and the same range.                           *)
(***************************************************************************)
C28_KeyInjective ==
  /\ producer # <<>> /\ consumer # <<>> /\ producer # consumer =>
       getCacheKey(producer.env, producer.range)
         # getCacheKey(consumer.env, consumer.range)
  /\ keyStep = 2 /\ served # NoPayload =>
       served.env = consumer.env /\ served.range = consumer.range

\* the same, of the parameters the dashboard sends: an environment name
\* and a range without a hyphen
C28_DashboardParameters ==
  keyStep = 2 /\ served # NoPayload
    /\ {producer.env, consumer.env} \subseteq {"prod"}
    /\ {producer.range, consumer.range} \subseteq {"24h", "7d", "7d7d"}
    => served.env = consumer.env /\ served.range = consumer.range

(***************************************************************************)
(* C30.  Every page shows a raw service name under the same display name:  *)
(* the mapServiceName of the errors route and that of the CLI-based        *)
(* metrics route return what the shared mapServiceName returns, for every  *)
(* raw name.                                                               *)
(***************************************************************************)
C30_SameNameEverywhere ==
  \A p, q \in Pages :
    shownOn # <<>> /\ shownOn[p] # <<>> /\ shownOn[q] # <<>> => shownOn[p] = shownOn[q]

\* the same, of the four raw names every copy lists as a key
C30_CommonKeys ==
  \A p, q \in Pages :
    /\ shownOn # <<>> /\ shownOn[p] # <<>> /\ shownOn[q] # <<>>
    /\ toLowerCase(rawService) \in {errorsMappings[i].key : i \in 1..Len(errorsMappings)}
    => shownOn[p] = shownOn[q]

====
